---- MODULE Spec2Model ----
(***************************************************************************)
(* Evidence-gathering pipeline of the smart finance server:                *)
(*   tools/mops_report.py   fetch_mops_report      (filing fetcher + store) *)
(*   tools/news_summary.py  crawl_etnews_articles  (news fetcher)           *)
(*   mc.py, mo.py, server.py                       (pipeline entry points)  *)
(***************************************************************************)
EXTENDS Integers, Sequences, FiniteSets, TLC

\* ------------------------------------------------------------------ bounds
MaxCalls == 2    \* fetch_mops_report invocations in one behaviour
MaxCombos == 2   \* largest cross-product one direct invocation is given
MaxPages == 2    \* search pages a crawl may ask for
LongLen == 3001  \* length of a long article body
ErrLen == 20     \* length of the text of a fetch error

\* ------------------------------------------------------- program constants
TableCap == 5    \* tables[:5]
NoMainLen == 8   \* len("(無法取得內文)")
BodyCap == 3000  \* a['content'][:3000]
SummaryCap == 300  \* a['content'][:300]
SummaryArticles == 3  \* news[:3]
FailPrefixLen == 8  \* len("(抓取失敗: ") + len(")")

\* ------------------------------------------------------------ value model
Min(a, b) == IF a <= b THEN a ELSE b

Max(a, b) == IF a >= b THEN a ELSE b

\* Python None / JSON null as a map entry, and a table list as a map entry.
Null == [isNull |-> TRUE, tables |-> <<>>]

Val(ts) == [isNull |-> FALSE, tables |-> ts]

\* seq[:stop] on a length: a negative stop counts from the end.
PySliceLen(n, stop) == IF stop >= 0 THEN Min(n, stop) ELSE Max(n + stop, 0)

\* seq[:stop]
PySlice(seq, stop) == SubSeq(seq, 1, PySliceLen(Len(seq), stop))

\* ------------------------------------------------- fetch_mops_report: data
Invs == 1 .. MaxCalls

IdLists == {<<"2330">>, <<"2330", "2317">>, <<"2330", "2330">>}

YearLists == {<<2024>>, <<2024, 2023>>}

SeasonLists == {<<1>>, <<1, 4>>}

ArgChoices ==
  {a \in IdLists \X YearLists \X SeasonLists :
     Len(a[1]) * Len(a[2]) * Len(a[3]) <= MaxCombos}

\* key = f"{stock_id}_{year}Q{season}"
Key(stock_id, year, season) == <<stock_id, year, season>>

\* Every stock id a caller or the intent model can name.
StockUniverse == {"2330", "2317", "", "TSMC"}

AllKeys == {Key(s, y, q) : s \in StockUniverse, y \in {2024, 2023}, q \in {1, 4}}

\* The three nested loops: stock_id outer, year middle, season inner.
Combos(stock_ids, years, seasons) ==
  LET ny == Len(years)
      ns == Len(seasons)
      n  == Len(stock_ids) * ny * ns
  IN [p \in 1 .. n |->
        Key(stock_ids[((p - 1) \div (ny * ns)) + 1],
            years[(((p - 1) \div ns) % ny) + 1],
            seasons[((p - 1) % ns) + 1])]

KeySet(stock_ids, years, seasons) ==
  {Key(stock_ids[i], years[j], seasons[k]) :
     i \in DOMAIN stock_ids, j \in DOMAIN years, k \in DOMAIN seasons}

\* A <table> of the rendered page: whether pd.read_html can parse it, and whether
\* its column labels are strings (a header row) or integers (no header row).
PageTable(id, parses, cols) == [id |-> id, parses |-> parses, cols |-> cols]

PgOne == <<PageTable(1, TRUE, "str")>>

\* More tables than are read; the second cannot be parsed, the third has no
\* header row.
PgMany ==
  [i \in 1 .. (TableCap + 1) |->
     PageTable(i, i # 2, IF i = 3 THEN "int" ELSE "str")]

\* A page whose only table pd.read_html cannot parse.
PgUnparsed == <<PageTable(1, FALSE, "str")>>

\* What the filing site can render for one query once a table is present.
PageChoices == {PgOne, PgMany, PgUnparsed}

\* for idx, table in enumerate(tables[:5]): try ... append / except: continue
RECURSIVE ParseFrom(_, _)
ParseFrom(tables, idx) ==
  IF idx >= Min(Len(tables), TableCap) THEN <<>>
  ELSE LET t == tables[idx + 1]
       IN (IF t.parses
             THEN <<[table_index |-> idx, cols |-> t.cols, data |-> t.id]>>
             ELSE <<>>) \o ParseFrom(tables, idx + 1)

\* (mutant) table_index counts the tables kept, not the tables of the page
ParseTables_Renumbered(tables) ==
  LET ts == ParseFrom(tables, 0)
  IN [j \in DOMAIN ts |-> [ts[j] EXCEPT !.table_index = j - 1]]

ParseTables(tables) == ParseFrom(tables, 0)

\* json.dump(all_tables, f): the keys of every row mapping are written as JSON
\* strings, whatever their Python type was.
JsonDump(all_tables) ==
  [i \in DOMAIN all_tables |-> [all_tables[i] EXCEPT !.cols = "str"]]

\* A file of the working directory.
NoFile == [exists |-> FALSE, complete |-> FALSE, text |-> <<>>]

\* open(filename, "w"): the file exists and is empty until json.dump has run.
TruncatedFile == [exists |-> TRUE, complete |-> FALSE, text |-> <<>>]

WrittenFile(all_tables) ==
  [exists |-> TRUE, complete |-> TRUE, text |-> JsonDump(all_tables)]

\* f.write of the dumped text into a file opened with "w": it lands at the
\* start of the file. Text another writer put there since this writer's open
\* truncated the file is overwritten only as far as the new text reaches; a
\* longer one leaves its tail behind, and the file is no JSON document.
Overwrite(file, all_tables) ==
  IF Len(file.text) > Len(JsonDump(all_tables))
    THEN [exists |-> TRUE, complete |-> FALSE, text |-> file.text]
    ELSE WrittenFile(all_tables)

\* json.load(f): raises on a file that does not hold a complete JSON document.
JsonLoad(file) ==
  IF file.complete THEN [ok |-> TRUE, value |-> Val(file.text)]
  ELSE [ok |-> FALSE, value |-> Null]

\* all_results[key] = value
SetEntry(all_results, key, value) == (key :> value) @@ all_results

\* ------------------------------------------------ fetch_mops_report: state
VARIABLES
  store,       \* the working directory: composite key -> file "<key>.json"
  inv,         \* the invocations of fetch_mops_report
  retrievals,  \* the filing site's log: driver.get calls received per key
               \* (inv[i].source logs where each key's entry last came from)
  site,        \* the news site: what each search page answers
  crawl,       \* the running call of crawl_etnews_articles / _crawl_ettoday
  pipe         \* the running request of an entry point of mc.py, mo.py, server.py

EmptyMap == [k \in {} |-> Null]

IdleInv ==
  [pc |-> "idle", stock_ids |-> <<>>, years |-> <<>>, seasons |-> <<>>,
   pos |-> 1, all_results |-> EmptyMap, all_tables |-> <<>>,
   sessions |-> 0, gets |-> 0, source |-> EmptyMap]

InvCombos(i) == Combos(inv[i].stock_ids, inv[i].years, inv[i].seasons)

InvKeys(i) == KeySet(inv[i].stock_ids, inv[i].years, inv[i].seasons)

CurKey(i) == InvCombos(i)[inv[i].pos]

Running(i) == inv[i].pc \notin {"idle", "done", "raised"}

\* Where an entry came from: the cache file read, the page rendered, or a wait
\* that timed out.
Source(kind, tables) == [kind |-> kind, tables |-> tables]

\* (mutant) the handler forgets the entry of the failed key
OnFetchError_Dropped(all_results, key) == all_results

\* except Exception: all_results[key] = None
OnFetchError(all_results, key) == SetEntry(all_results, key, Null)

\* The loop variable moves to the next combination.
NextPos(pos) == pos + 1

\* ---------------------------------------------- fetch_mops_report: actions
\* A client calls the tool. The function holds no await, so within one
\* server process an invocation runs to its end before the next one starts.
Call(i, args) ==
  /\ inv[i].pc = "idle"
  /\ \A j \in Invs : ~Running(j)
  /\ \A j \in Invs : j < i => inv[j].pc # "idle"
  /\ inv' = [inv EXCEPT ![i] =
       [IdleInv EXCEPT !.pc = "loop", !.stock_ids = args[1],
                       !.years = args[2], !.seasons = args[3]]]
  /\ UNCHANGED <<store, retrievals, site, crawl, pipe>>

\* A client calls the tool of a server process of its own (mo.py, server.py and
\* tools/mops_report.py each start one) while other invocations are running;
\* the processes share the working directory. Invocations are numbered in the
\* order of their calls.
CallRace(i, args) ==
  /\ inv[i].pc = "idle"
  /\ \A j \in Invs : j < i => inv[j].pc # "idle"
  /\ inv' = [inv EXCEPT ![i] =
       [IdleInv EXCEPT !.pc = "loop", !.stock_ids = args[1],
                       !.years = args[2], !.seasons = args[3]]]
  /\ UNCHANGED <<store, retrievals, site, crawl, pipe>>

\* The loops are exhausted: return all_results.
Return(i) ==
  /\ inv[i].pc = "loop"
  /\ inv[i].pos > Len(InvCombos(i))
  /\ inv' = [inv EXCEPT ![i].pc = "done"]
  /\ UNCHANGED <<store, retrievals, site, crawl, pipe>>

\* if os.path.exists(filename)
CheckCache(i) ==
  /\ inv[i].pc = "loop"
  /\ inv[i].pos <= Len(InvCombos(i))
  /\ inv' = [inv EXCEPT ![i].pc =
       IF store[CurKey(i)].exists THEN "read" ELSE "chrome"]
  /\ UNCHANGED <<store, retrievals, site, crawl, pipe>>

\* with open(filename) as f: all_results[key] = json.load(f); continue
ReadCache(i) ==
  /\ inv[i].pc = "read"
  /\ LET r == JsonLoad(store[CurKey(i)])
     IN inv' = [inv EXCEPT ![i] =
          IF r.ok
            THEN [@ EXCEPT !.all_results = SetEntry(@, CurKey(i), r.value),
                           !.source = SetEntry(@, CurKey(i),
                                        Source("hit", store[CurKey(i)].text)),
                           !.pos = NextPos(@), !.pc = "loop"]
            ELSE [@ EXCEPT !.pc = "raised"]]
  /\ UNCHANGED <<store, retrievals, site, crawl, pipe>>

\* driver = webdriver.Chrome(options=options), outside the try block
CreateDriver(i, ok) ==
  /\ inv[i].pc = "chrome"
  /\ inv' = [inv EXCEPT ![i] =
       IF ok THEN [@ EXCEPT !.sessions = @ + 1, !.pc = "get"]
             ELSE [@ EXCEPT !.pc = "raised"]]
  /\ UNCHANGED <<store, retrievals, site, crawl, pipe>>

\* driver.get(url), outside the try block
DriverGet(i, ok) ==
  /\ inv[i].pc = "get"
  /\ retrievals' = [retrievals EXCEPT ![CurKey(i)] = @ + 1]
  /\ inv' = [inv EXCEPT ![i] =
       [@ EXCEPT !.gets = @ + 1, !.pc = IF ok THEN "wait" ELSE "raised"]]
  /\ UNCHANGED <<store, site, crawl, pipe>>

\* WebDriverWait(driver, 15).until(...) raises TimeoutException: no table showed
\* up in time. except: all_results[key] = None; finally: driver.quit().
WaitTimeout(i) ==
  /\ inv[i].pc = "wait"
  /\ inv' = [inv EXCEPT ![i] =
       [@ EXCEPT !.all_results = OnFetchError(@, CurKey(i)),
                 !.source = SetEntry(@, CurKey(i), Source("timeout", <<>>)),
                 !.sessions = @ - 1,
                 !.pos = NextPos(@), !.pc = "loop"]]
  /\ UNCHANGED <<store, retrievals, site, crawl, pipe>>

\* A table is present: parse the first tables, all_results[key] = all_tables,
\* open(filename, "w").
ParseAndOpen(i, page) ==
  /\ inv[i].pc = "wait"
  /\ inv' = [inv EXCEPT ![i] =
       [@ EXCEPT !.all_tables = ParseTables(page),
                 !.all_results = SetEntry(@, CurKey(i), Val(ParseTables(page))),
                 !.source = SetEntry(@, CurKey(i), Source("page", page)),
                 !.pc = "dump"]]
  /\ store' = [store EXCEPT ![CurKey(i)] = TruncatedFile]
  /\ UNCHANGED <<retrievals, site, crawl, pipe>>

\* json.dump(all_tables, f); the file is closed; finally: driver.quit().
Dump(i) ==
  /\ inv[i].pc = "dump"
  /\ store' = [store EXCEPT ![CurKey(i)] = Overwrite(@, inv[i].all_tables)]
  /\ inv' = [inv EXCEPT ![i] =
       [@ EXCEPT !.sessions = @ - 1, !.pos = NextPos(@), !.pc = "loop"]]
  /\ UNCHANGED <<retrievals, site, crawl, pipe>>

\* ------------------------------------------- crawl_etnews_articles: data
\* A ".box_2" element of a search page: its "h2 a" tag (title, href) and its
\* "p.detail span.date" tag (the text tokens), either of which may be missing.
Box(hasTitle, title, link, hasDate, date_text) ==
  [hasTitle |-> hasTitle, title |-> title, link |-> link,
   hasDate |-> hasDate, date_text |-> date_text]

BoxA == Box(TRUE, "A", "/a", TRUE, <<"2024-05-01", "12:30">>)

BoxB == Box(TRUE, "B", "/b", TRUE, <<"yesterday">>)

BoxNoDate == Box(TRUE, "C", "/c", FALSE, <<>>)

BoxNoTitle == Box(FALSE, "", "", TRUE, <<"2024-05-02">>)

IsoDates == {"2024-05-01", "2024-05-02"}

\* re.search(r"\d{4}-\d{2}-\d{2}", date_tag.text): group(0) of the first match, or "".
RECURSIVE DateSearch(_)
DateSearch(tokens) ==
  IF tokens = <<>> THEN ""
  ELSE IF Head(tokens) \in IsoDates THEN Head(tokens)
  ELSE DateSearch(Tail(tokens))

\* The result lists a search page can hold.
BoxSeqs ==
  {<<>>, <<BoxA>>, <<BoxA, BoxB>>, <<BoxB, BoxA>>, <<BoxNoDate, BoxB, BoxNoTitle>>}

\* The answer to one search-page request: failure (timeout, non-2xx) or boxes.
PageAnswers ==
  {[ok |-> FALSE, boxes |-> <<>>]} \cup {[ok |-> TRUE, boxes |-> b] : b \in BoxSeqs}

Sites == [1 .. MaxPages -> PageAnswers]

\* What the article request can come to: a body (main.get_text), a page without
\* "#main-content" / ".story", or a failed request.
TextContent(n) == [kind |-> "text", len |-> n]

NoMainContent == [kind |-> "nomain", len |-> NoMainLen]

FailedContent == [kind |-> "failed", len |-> FailPrefixLen + ErrLen]

ArticleAnswers == {TextContent(LongLen), NoMainContent, FailedContent}

IdleCrawl ==
  [pc |-> "idle", keyword |-> "", pages |-> 0, page |-> 1, boxes |-> <<>>,
   idx |-> 1, articles |-> <<>>, requested |-> <<>>]

\* (mutant) an article whose link is in the list already is left out
AppendArticle_Dedup(articles, a) ==
  IF \E i \in DOMAIN articles : articles[i].link = a.link
    THEN articles ELSE Append(articles, a)

\* (mutant) an article whose request failed is left out
AppendArticle_DropFailed(articles, a) ==
  IF a.content.kind = "failed" THEN articles ELSE Append(articles, a)

\* (mutant) the new article is put in front of the list
AppendArticle_Front(articles, a) == <<a>> \o articles

\* articles.append({...})
AppendArticle(articles, a) == Append(articles, a)

MakeArticle(box, content, keyword) ==
  [title |-> box.title, link |-> box.link, date |-> DateSearch(box.date_text),
   content |-> content, keyword |-> keyword]

\* ---------------------------------------- crawl_etnews_articles: actions
\* articles = []; for page in range(1, pages + 1)
StartCrawl(keyword, pages) ==
  [IdleCrawl EXCEPT !.pc = "page", !.keyword = keyword, !.pages = pages]

\* range(1, pages + 1) is exhausted: return articles.
CrawlReturn ==
  /\ crawl.pc = "page"
  /\ crawl.page > crawl.pages
  /\ crawl' = [crawl EXCEPT !.pc = "done"]
  /\ UNCHANGED <<store, inv, retrievals, site, pipe>>

\* (mutant) a failed search page ends the loop over the pages
FetchPage_Abort ==
  /\ crawl.pc = "page"
  /\ crawl.page <= crawl.pages
  /\ crawl' =
       IF site[crawl.page].ok
         THEN [crawl EXCEPT !.requested = Append(@, crawl.page),
                            !.boxes = site[crawl.page].boxes, !.idx = 1, !.pc = "box"]
         ELSE [crawl EXCEPT !.requested = Append(@, crawl.page), !.page = crawl.pages + 1]
  /\ UNCHANGED <<store, inv, retrievals, site, pipe>>

\* res = await sess.get(url); res.raise_for_status(); except: continue
FetchPage ==
  /\ crawl.pc = "page"
  /\ crawl.page <= crawl.pages
  /\ crawl' =
       IF site[crawl.page].ok
         THEN [crawl EXCEPT !.requested = Append(@, crawl.page),
                            !.boxes = site[crawl.page].boxes, !.idx = 1, !.pc = "box"]
         ELSE [crawl EXCEPT !.requested = Append(@, crawl.page), !.page = @ + 1]
  /\ UNCHANGED <<store, inv, retrievals, site, pipe>>

\* for box in soup.select(".box_2"): the boxes of this page are exhausted.
PageDone ==
  /\ crawl.pc = "box"
  /\ crawl.idx > Len(crawl.boxes)
  /\ crawl' = [crawl EXCEPT !.page = @ + 1, !.pc = "page"]
  /\ UNCHANGED <<store, inv, retrievals, site, pipe>>

\* if not title_tag or not date_tag: continue
SkipBox ==
  /\ crawl.pc = "box"
  /\ crawl.idx <= Len(crawl.boxes)
  /\ LET box == crawl.boxes[crawl.idx] IN ~box.hasTitle \/ ~box.hasDate
  /\ crawl' = [crawl EXCEPT !.idx = @ + 1]
  /\ UNCHANGED <<store, inv, retrievals, site, pipe>>

\* art_res = await sess.get(link) ...; content; articles.append({...})
FetchArticle(content) ==
  /\ crawl.pc = "box"
  /\ crawl.idx <= Len(crawl.boxes)
  /\ LET box == crawl.boxes[crawl.idx]
     IN /\ box.hasTitle /\ box.hasDate
        /\ crawl' = [crawl EXCEPT
             !.articles = AppendArticle(@, MakeArticle(box, content, crawl.keyword)),
             !.idx = @ + 1]
  /\ UNCHANGED <<store, inv, retrievals, site, pipe>>

CrawlStep(answers) ==
  \/ CrawlReturn
  \/ FetchPage
  \/ PageDone
  \/ SkipBox
  \/ \E content \in answers : FetchArticle(content)

\* A client calls the crawl tool.
CallCrawl(keyword, pages) ==
  /\ crawl.pc = "idle"
  /\ crawl' = StartCrawl(keyword, pages)
  /\ UNCHANGED <<store, inv, retrievals, site, pipe>>

\* ------------------------------------------------------- entry points: data
\* The text of a model completion: a body, possibly padded with white space.
Text(padded, body) == [padded |-> padded, body |-> body]

\* str.strip()
Strip(text) == [text EXCEPT !.padded = FALSE]

NoText == Text(FALSE, "")

\* A JSON object: a function from the keys present to their values.
ObjBasic(company, stock_id, topic) ==
  [company |-> company, stock_id |-> stock_id, topic |-> topic]

ObjFull(company, stock_id, topic, resourse, year, season) ==
  [company |-> company, stock_id |-> stock_id, topic |-> topic,
   resourse |-> resourse, year |-> year, season |-> season]

EmptyObj == [k \in {} |-> ""]

\* The objects the intent model may answer with.
IntentChoices ==
  {ObjBasic("Foxconn", "2317", "dividend"), ObjBasic("Foxconn", "", "dividend"),
   ObjBasic("", "2317", " "), ObjBasic("Foxconn", "TSMC", "")}
  \cup {ObjFull("TSMC", "2330", "report", r, 2024, 1) : r \in {"mops", "news", "Both", "none"}}
  \cup {ObjFull("TSMC", "", "report", "mops", 2023, 4),
        [company |-> "TSMC", stock_id |-> "2330", topic |-> "report",
         resourse |-> "mops"]}

\* What the completion call of the intent step can come to: the call fails, or
\* it returns text that is a JSON object or is not JSON.
ParseAnswer(fails, isJson, text, obj) ==
  [fails |-> fails, isJson |-> isJson, text |-> text, obj |-> obj]

ParseAnswers ==
  {ParseAnswer(TRUE, FALSE, NoText, EmptyObj),
   ParseAnswer(FALSE, FALSE, Text(TRUE, "Sorry, I cannot"), EmptyObj)}
  \cup {ParseAnswer(FALSE, TRUE, Text(TRUE, "{...}"), o) : o \in IntentChoices}

\* dict.get(key, default)
Get(obj, key, default) == IF key \in DOMAIN obj THEN obj[key] ELSE default

\* str.strip() on the keyword values at hand.
StripStr(str) == IF str = " " THEN "" ELSE str

\* The clock: datetime.now().
Now == [year |-> 2024, month |-> 11]

\* str.lower() on the selector values at hand.
Lower(str) == IF str = "Both" THEN "both" ELSE str

\* The value parse_question returns: the parsed object, or the error mapping
\* {"error": ..., "raw": ...} (hasRaw tells whether it has the key "raw").
Parsed(raised, error, hasRaw, raw, obj) ==
  [raised |-> raised, error |-> error, hasRaw |-> hasRaw, raw |-> raw, obj |-> obj]

NoParsed == Parsed(FALSE, FALSE, FALSE, NoText, EmptyObj)

\* mc.parse_question: the completion call is outside the try block.
McParseQuestion(ans) ==
  IF ans.fails THEN Parsed(TRUE, FALSE, FALSE, NoText, EmptyObj)
  ELSE IF ans.isJson THEN Parsed(FALSE, FALSE, FALSE, NoText, ans.obj)
  ELSE Parsed(FALSE, TRUE, TRUE, Strip(ans.text), EmptyObj)

\* mo.parse_question: except json.JSONDecodeError / except Exception.
MoParseQuestion(ans) ==
  IF ans.fails THEN Parsed(FALSE, TRUE, FALSE, NoText, EmptyObj)
  ELSE IF ans.isJson THEN Parsed(FALSE, FALSE, FALSE, NoText, ans.obj)
  ELSE Parsed(FALSE, TRUE, TRUE, Strip(ans.text), EmptyObj)

\* server.analyze: json.loads(chat.choices[0].message.content.strip()), no try.
ServerParse(ans) ==
  IF ans.fails \/ ~ans.isJson THEN Parsed(TRUE, FALSE, FALSE, NoText, EmptyObj)
  ELSE Parsed(FALSE, FALSE, FALSE, NoText, ans.obj)

\* mops_data / reports: None, {}, {"error": ...} or the fetcher's mapping.
Mops(kind, map) == [kind |-> kind, map |-> map]

NoMops == Mops("none", EmptyMap)

\* bool(mops_data)
MopsTruthy(m) == m.kind = "error" \/ (m.kind = "map" /\ DOMAIN m.map # {})

\* One rendered article: its number and the length of the body kept.
Block(i, a, cap) ==
  [no |-> i, title |-> a.title, link |-> a.link,
   body |-> PySliceLen(a.content.len, cap)]

\* [f"...{a['content'][:3000]}..." for i, a in enumerate(articles)]
Docs(articles) == [i \in DOMAIN articles |-> Block(i, articles[i], BodyCap)]

\* [f"...{a['content'][:300]}..." for a in news[:3]]
SummaryDocs(news) ==
  LET kept == PySlice(news, SummaryArticles)
  IN [i \in DOMAIN kept |-> Block(i, kept[i], SummaryCap)]

\* The synthesis request: the article count it reports (-1: none reported), the
\* article blocks, whether a placeholder stands for them, and the filing data
\* embedded ("none": a placeholder stands for it).
Prompt(count, blocks, placeholder, mops) ==
  [count |-> count, blocks |-> blocks, placeholder |-> placeholder, mops |-> mops]

NoPrompt == Prompt(-1, <<>>, FALSE, NoMops)

\* What an entry point hands back: an error mapping, a string, the model's
\* answer, the envelope, or an exception.
Result(kind, hasRaw, raw) == [kind |-> kind, hasRaw |-> hasRaw, raw |-> raw]

NoResult == Result("none", FALSE, NoText)

Entries ==
  {"mc.parse_question", "mc.etnews_finance_summary", "mo.parse_question",
   "mo.etnews_finance_summary", "mo.analyze_financial_data", "server.analyze"}

LimitChoices == {-1, 0, 1, 5}

IdlePipe ==
  [entry |-> "none", pc |-> "idle", pages |-> 1, limit |-> 5,
   stock_id |-> "", company |-> "", topic |-> "", resourse |-> "",
   year |-> 0, season |-> 0, parsed |-> NoParsed, keyword |-> "",
   news |-> <<>>, newsNone |-> TRUE, mops |-> NoMops, prompt |-> NoPrompt,
   result |-> NoResult, llmParse |-> 0, llmSynth |-> 0, crawls |-> 0,
   fetches |-> <<>>, given |-> ObjBasic("", "", ""),
   heard |-> ParseAnswer(FALSE, TRUE, NoText, EmptyObj)]

\* (mutant) the emptiness test never succeeds
NoArticles_Never(articles) == FALSE

\* if not articles
NoArticles(articles) == articles = <<>>

\* resourse in ["mops", "both"]
WantsMops(resourse) == resourse \in {"mops", "both"}

\* (mutant) the news source is queried whatever the selector
WantsNews_Always(resourse) == TRUE

\* resourse in ["news", "both"]
WantsNews(resourse) == resourse \in {"news", "both"}

\* The invocation of fetch_mops_report an entry point makes.
StartFetch(stock_ids, years, seasons) ==
  [IdleInv EXCEPT !.pc = "loop", !.stock_ids = stock_ids,
                  !.years = years, !.seasons = seasons]

Finish(p, result) == [p EXCEPT !.pc = "done", !.result = result]

Raise(p) == [p EXCEPT !.pc = "raised", !.result = Result("exception", FALSE, NoText)]

\* ---------------------------------------------------- entry points: steps
\* The steps an entry point ends in: it awaits the crawl, the filing fetch or
\* the synthesis completion, or it is over.
GoCrawl(p, keyword) ==
  /\ pipe' = [p EXCEPT !.keyword = keyword, !.pc = "news", !.crawls = @ + 1]
  /\ crawl' = StartCrawl(keyword, p.pages)
  /\ UNCHANGED <<store, inv, retrievals, site>>

GoFetch(p, stock_ids, years, seasons) ==
  /\ pipe' = [p EXCEPT !.pc = "filings",
                       !.fetches = Append(@, <<stock_ids, years, seasons>>)]
  /\ inv' = [inv EXCEPT ![1] = StartFetch(stock_ids, years, seasons)]
  /\ UNCHANGED <<store, retrievals, site, crawl>>

GoSynth(p, prompt) ==
  /\ pipe' = [p EXCEPT !.prompt = prompt, !.pc = "synth", !.llmSynth = @ + 1]
  /\ UNCHANGED <<store, inv, retrievals, site, crawl>>

GoEnd(p) ==
  /\ pipe' = p
  /\ UNCHANGED <<store, inv, retrievals, site, crawl>>

\* A client calls an entry point; mo.analyze_financial_data may be given
\* stock_id, company and topic. Each entry point but the last starts with the
\* completion call of the intent step.
Request(entry, pages, limit, given) ==
  /\ pipe.pc = "idle"
  /\ entry # "mo.analyze_financial_data"
  /\ GoEnd([pipe EXCEPT !.entry = entry, !.pages = pages, !.limit = limit,
                        !.pc = "parse", !.llmParse = @ + 1])

\* mc.parse_question / mo.parse_question called as tools.
ParseQuestionDone(ans) ==
  /\ pipe.pc = "parse"
  /\ pipe.entry \in {"mc.parse_question", "mo.parse_question"}
  /\ LET parsed == IF pipe.entry = "mc.parse_question"
                     THEN McParseQuestion(ans) ELSE MoParseQuestion(ans)
         p == [pipe EXCEPT !.heard = ans, !.parsed = parsed]
     IN IF parsed.raised THEN GoEnd(Raise(p))
        ELSE IF parsed.error
          THEN GoEnd(Finish(p, Result("error_dict", parsed.hasRaw, parsed.raw)))
        ELSE GoEnd(Finish(p, Result("intent", FALSE, NoText)))

\* mc.etnews_finance_summary / mo.etnews_finance_summary: parsed = await
\* parse_question(question); if "error" in parsed: return {...}; keyword.
SummaryParsed(ans) ==
  /\ pipe.pc = "parse"
  /\ pipe.entry \in {"mc.etnews_finance_summary", "mo.etnews_finance_summary"}
  /\ LET parsed == IF pipe.entry = "mc.etnews_finance_summary"
                     THEN McParseQuestion(ans) ELSE MoParseQuestion(ans)
         p == [pipe EXCEPT !.heard = ans, !.parsed = parsed,
                 !.company = Get(parsed.obj, "company", ""),
                 !.topic = Get(parsed.obj, "topic", "")]
         keyword == StripStr(p.company \o p.topic)
     IN IF parsed.raised THEN GoEnd(Raise(p))
        ELSE IF parsed.error
          THEN GoEnd(Finish([p EXCEPT !.company = "", !.topic = ""],
                            Result("error_dict", TRUE, parsed.raw)))
        ELSE IF keyword = "" THEN GoEnd(Finish(p, Result("no_keyword", FALSE, NoText)))
        ELSE GoCrawl(p, keyword)

\* articles = await crawl(keyword, pages); if not articles: return advisory;
\* docs over articles[:limit]; the count reported is len(articles[:limit]).
SummaryCrawled ==
  /\ pipe.pc = "news"
  /\ pipe.entry \in {"mc.etnews_finance_summary", "mo.etnews_finance_summary"}
  /\ crawl.pc = "done"
  /\ LET p == [pipe EXCEPT !.news = crawl.articles, !.newsNone = FALSE]
         kept == PySlice(crawl.articles, pipe.limit)
     IN IF NoArticles(crawl.articles)
          THEN GoEnd(Finish(p, Result("no_news", FALSE, NoText)))
          ELSE GoSynth(p, Prompt(Len(kept), Docs(kept), FALSE, NoMops))

\* mc._gpt_answer has no try around the completion call; mo catches it.
SummaryAnswered(ok) ==
  /\ pipe.pc = "synth"
  /\ pipe.entry \in {"mc.etnews_finance_summary", "mo.etnews_finance_summary"}
  /\ IF ok THEN GoEnd(Finish(pipe, Result("answer", FALSE, NoText)))
     ELSE IF pipe.entry = "mc.etnews_finance_summary" THEN GoEnd(Raise(pipe))
     ELSE GoEnd(Finish(pipe, Result("synth_failed", FALSE, NoText)))

\* mo.analyze_financial_data: the prompt and the completion call.
AnalyzeAsk(p) ==
  GoSynth(p, Prompt(Len(p.news), SummaryDocs(p.news), NoArticles(p.news), p.mops))

\* if stock_id: reports = await fetch_mops_report([stock_id], [2024, 2023], [1, 4])
AnalyzeFilings(p) ==
  IF p.stock_id # ""
    THEN GoFetch(p, <<p.stock_id>>, <<2024, 2023>>, <<1, 4>>)
    ELSE AnalyzeAsk([p EXCEPT !.mops = Mops("empty", EmptyMap)])

\* keyword = f"{company}{topic}".strip(); if keyword: news = await crawl(...)
AnalyzeNews(p) ==
  LET keyword == StripStr(p.company \o p.topic)
  IN IF keyword # "" THEN GoCrawl(p, keyword)
     ELSE AnalyzeFilings([p EXCEPT !.news = <<>>, !.newsNone = FALSE])

\* if not stock_id or not company: parsed = await parse_question(question)
AnalyzeRequest(pages, given) ==
  /\ pipe.pc = "idle"
  /\ LET p == [pipe EXCEPT !.entry = "mo.analyze_financial_data", !.pages = pages,
                 !.given = given, !.stock_id = given.stock_id,
                 !.company = given.company, !.topic = given.topic]
     IN IF given.stock_id = "" \/ given.company = ""
          THEN GoEnd([p EXCEPT !.pc = "parse", !.llmParse = @ + 1])
          ELSE AnalyzeNews(p)

\* if "error" in parsed: return string; stock_id, company, topic = parsed.get(...)
AnalyzeParsed(ans) ==
  /\ pipe.pc = "parse"
  /\ pipe.entry = "mo.analyze_financial_data"
  /\ LET parsed == MoParseQuestion(ans)
         p == [pipe EXCEPT !.heard = ans, !.parsed = parsed]
     IN IF parsed.error
          THEN GoEnd(Finish(p, Result("parse_failed", FALSE, NoText)))
          ELSE AnalyzeNews([p EXCEPT !.stock_id = Get(parsed.obj, "stock_id", ""),
                                     !.company = Get(parsed.obj, "company", ""),
                                     !.topic = Get(parsed.obj, "topic", "")])

AnalyzeCrawled ==
  /\ pipe.pc = "news"
  /\ pipe.entry = "mo.analyze_financial_data"
  /\ crawl.pc = "done"
  /\ AnalyzeFilings([pipe EXCEPT !.news = crawl.articles, !.newsNone = FALSE])

\* try: reports = await fetch_mops_report(...) except: reports = {"error": ...}
AnalyzeFetched ==
  /\ pipe.pc = "filings"
  /\ pipe.entry = "mo.analyze_financial_data"
  /\ inv[1].pc \in {"done", "raised"}
  /\ AnalyzeAsk([pipe EXCEPT !.mops =
       IF inv[1].pc = "done" THEN Mops("map", inv[1].all_results)
                             ELSE Mops("error", EmptyMap)])

\* try: response = await client...create(...) except: return "❌ 分析失敗：..."
AnalyzeAnswered(ok) ==
  /\ pipe.pc = "synth"
  /\ pipe.entry = "mo.analyze_financial_data"
  /\ IF ok THEN GoEnd(Finish(pipe, Result("answer", FALSE, NoText)))
     ELSE GoEnd(Finish(pipe, Result("synth_failed", FALSE, NoText)))

\* server.analyze, step 3: news_text over news_data[:limit] if news_data else "無";
\* json.dumps(mops_data) if mops_data else "無"; the completion call.
ServerAsk(p) ==
  LET hasNews == ~p.newsNone /\ ~NoArticles(p.news)
      kept == PySlice(p.news, p.limit)
  IN GoSynth(p, Prompt(-1, IF hasNews THEN Docs(kept) ELSE <<>>, ~hasNews,
                       IF MopsTruthy(p.mops) THEN p.mops ELSE NoMops))

\* if resourse in ["news", "both"]: news_data = await crawl(company + topic, pages)
ServerNews(p) ==
  IF WantsNews(p.resourse) THEN GoCrawl(p, p.company \o p.topic)
  ELSE ServerAsk(p)

\* if resourse in ["mops", "both"]: mops_data = await fetch([stock_id], [year], [season])
ServerFilings(p) ==
  IF WantsMops(p.resourse) THEN GoFetch(p, <<p.stock_id>>, <<p.year>>, <<p.season>>)
  ELSE ServerNews(p)

\* parsed = json.loads(...); company, stock_id, resourse, topic, year, season
ServerParsed(ans) ==
  /\ pipe.pc = "parse"
  /\ pipe.entry = "server.analyze"
  /\ LET parsed == ServerParse(ans)
         o == parsed.obj
         p == [pipe EXCEPT !.heard = ans, !.parsed = parsed]
     IN IF parsed.raised THEN GoEnd(Raise(p))
        ELSE ServerFilings([p EXCEPT
               !.company = Get(o, "company", ""),
               !.stock_id = Get(o, "stock_id", ""),
               !.resourse = Lower(Get(o, "resourse", "both")),
               !.topic = Get(o, "topic", ""),
               !.year = Get(o, "year", Now.year),
               !.season = Get(o, "season", ((Now.month - 1) \div 3) + 1)])

ServerFetched ==
  /\ pipe.pc = "filings"
  /\ pipe.entry = "server.analyze"
  /\ inv[1].pc \in {"done", "raised"}
  /\ IF inv[1].pc = "raised" THEN GoEnd(Raise(pipe))
     ELSE ServerNews([pipe EXCEPT !.mops = Mops("map", inv[1].all_results)])

ServerCrawled ==
  /\ pipe.pc = "news"
  /\ pipe.entry = "server.analyze"
  /\ crawl.pc = "done"
  /\ ServerAsk([pipe EXCEPT !.news = crawl.articles, !.newsNone = FALSE])

\* final_response = await client...create(...), no try; return {...}
ServerAnswered(ok) ==
  /\ pipe.pc = "synth"
  /\ pipe.entry = "server.analyze"
  /\ IF ok THEN GoEnd(Finish(pipe, Result("envelope", FALSE, NoText)))
     ELSE GoEnd(Raise(pipe))

PipeStep ==
  \/ \E ans \in ParseAnswers : ParseQuestionDone(ans)
  \/ \E ans \in ParseAnswers : SummaryParsed(ans)
  \/ SummaryCrawled
  \/ \E ok \in BOOLEAN : SummaryAnswered(ok)
  \/ \E ans \in ParseAnswers : AnalyzeParsed(ans)
  \/ AnalyzeCrawled
  \/ AnalyzeFetched
  \/ \E ok \in BOOLEAN : AnalyzeAnswered(ok)
  \/ \E ans \in ParseAnswers : ServerParsed(ans)
  \/ ServerFetched
  \/ ServerCrawled
  \/ \E ok \in BOOLEAN : ServerAnswered(ok)

FilingsStep(pages) ==
  \E i \in Invs :
    \/ Return(i)
    \/ CheckCache(i)
    \/ ReadCache(i)
    \/ \E ok \in BOOLEAN : CreateDriver(i, ok)
    \/ \E ok \in BOOLEAN : DriverGet(i, ok)
    \/ WaitTimeout(i)
    \/ \E page \in pages : ParseAndOpen(i, page)
    \/ Dump(i)

vars == <<store, inv, retrievals, site, crawl, pipe>>

NoSite == [p \in 1 .. MaxPages |-> [ok |-> FALSE, boxes |-> <<>>]]

InitFilings ==
  /\ store = [k \in AllKeys |-> NoFile]
  /\ inv = [i \in Invs |-> IdleInv]
  /\ retrievals = [k \in AllKeys |-> 0]
  /\ site = NoSite
  /\ crawl = IdleCrawl
  /\ pipe = IdlePipe

NextFilings ==
  \/ \E i \in Invs, args \in ArgChoices : Call(i, args)
  \/ FilingsStep(PageChoices)

SpecFilings == InitFilings /\ [][NextFilings]_vars

InitNews ==
  /\ store = [k \in AllKeys |-> NoFile]
  /\ inv = [i \in Invs |-> IdleInv]
  /\ retrievals = [k \in AllKeys |-> 0]
  /\ site \in Sites
  /\ crawl = IdleCrawl
  /\ pipe = IdlePipe

NextNews ==
  \/ \E pages \in 1 .. MaxPages : CallCrawl("kw", pages)
  \/ CrawlStep(ArticleAnswers)

SpecNews == InitNews /\ [][NextNews]_vars

\* Invocations in different processes, against a filing site whose browser
\* sessions start and load (the wait may still time out).
RaceArgs == {<< <<"2330">>, <<2024>>, <<1>> >>, << <<"2330">>, <<2024>>, <<1, 4>> >>}

NextRace ==
  \/ \E i \in Invs, args \in RaceArgs : CallRace(i, args)
  \/ \E i \in Invs : Return(i)
  \/ \E i \in Invs : CheckCache(i)
  \/ \E i \in Invs : ReadCache(i)
  \/ \E i \in Invs : CreateDriver(i, TRUE)
  \/ \E i \in Invs : DriverGet(i, TRUE)
  \/ \E i \in Invs : WaitTimeout(i)
  \/ \E i \in Invs, page \in PageChoices : ParseAndOpen(i, page)
  \/ \E i \in Invs : Dump(i)

SpecRace == InitFilings /\ [][NextRace]_vars

\* The sites and stores a request of an entry point is run against.
SiteOf(first, rest) == [p \in 1 .. MaxPages |-> IF p = 1 THEN first ELSE rest]

PageOk(boxes) == [ok |-> TRUE, boxes |-> boxes]

PageDown == [ok |-> FALSE, boxes |-> <<>>]

PipeSites ==
  {SiteOf(PageDown, PageDown), SiteOf(PageOk(<<>>), PageOk(<<>>)),
   SiteOf(PageOk(<<BoxA>>), PageDown),
   SiteOf(PageOk(<<BoxA, BoxB>>), PageOk(<<BoxNoDate, BoxB, BoxNoTitle>>)),
   SiteOf(PageOk(<<BoxA, BoxB>>), PageOk(<<BoxB, BoxA>>))}

PipeStores ==
  {[k \in AllKeys |-> NoFile],
   [k \in AllKeys |-> IF k = Key("2330", 2024, 1)
                        THEN WrittenFile(ParseTables(PgOne)) ELSE NoFile]}

GivenChoices ==
  {ObjBasic("", "", ""), ObjBasic("TSMC", "2330", "report"),
   ObjBasic("TSMC", "", ""), ObjBasic("", "2330", "report")}

InitPipe ==
  /\ store \in PipeStores
  /\ inv = [i \in Invs |-> IdleInv]
  /\ retrievals = [k \in AllKeys |-> 0]
  /\ site \in PipeSites
  /\ crawl = IdleCrawl
  /\ pipe = IdlePipe

NextPipe ==
  \/ \E entry \in Entries, pages \in 1 .. MaxPages, limit \in LimitChoices :
       Request(entry, pages, limit, ObjBasic("", "", ""))
  \/ \E pages \in 1 .. MaxPages, given \in GivenChoices : AnalyzeRequest(pages, given)
  \/ PipeStep
  \/ CrawlStep({TextContent(LongLen), FailedContent})
  \/ FilingsStep({PgOne})

SpecPipe == InitPipe /\ [][NextPipe]_vars

\* ===================================================== fetch_mops_report
\* C1: two calls in succession with identical arguments and an uncleared store:
\* the second returns the mapping the first returned and retrieves no filing
\* page, so every requested key is retrieved exactly once over the two calls.
C1_SecondCallFromStore ==
  (/\ inv[1].pc = "done" /\ inv[2].pc # "idle"
   /\ inv[2].stock_ids = inv[1].stock_ids
   /\ inv[2].years = inv[1].years
   /\ inv[2].seasons = inv[1].seasons)
  => /\ inv[2].gets = 0
     /\ inv[2].pc = "done" =>
          /\ inv[2].all_results = inv[1].all_results
          /\ \A k \in InvKeys(1) : retrievals[k] = 1

\* C2: the call always returns normally, with a mapping whose key set is the
\* full cross-product, whatever fails for a single combination.
C2_AlwaysCompleteMapping ==
  \A i \in Invs :
    /\ inv[i].pc # "raised"
    /\ inv[i].pc = "done" => DOMAIN inv[i].all_results = InvKeys(i)

\* The entry a key's last handling in the loop calls for.
ExpectedEntry(src) ==
  CASE src.kind = "timeout" -> Null
    [] src.kind = "page" -> Val(ParseTables(src.tables))
    [] src.kind = "hit" -> Val(src.tables)

\* C3: in a returned mapping the entry of every combination whose wait timed
\* out is null, and every other combination has the entry its own cache file
\* or page calls for: the loop went on over all combinations.
C3_TimeoutIsNullOthersKept ==
  \A i \in Invs :
    inv[i].pc = "done" =>
      /\ DOMAIN inv[i].all_results = InvKeys(i)
      /\ DOMAIN inv[i].source = InvKeys(i)
      /\ \A k \in InvKeys(i) :
           /\ inv[i].source[k].kind = "timeout" => inv[i].all_results[k] = Null
           /\ inv[i].all_results[k] = ExpectedEntry(inv[i].source[k])

C3_Witness ==
  \E i \in Invs :
    /\ inv[i].pc = "done"
    /\ \E k1, k2 \in InvKeys(i) :
         /\ inv[i].source[k1].kind = "timeout"
         /\ inv[i].all_results[k1] = Null
         /\ inv[i].source[k2].kind = "page"
         /\ inv[i].all_results[k2] # Null
         /\ inv[i].pos > 2

\* What a later call reads back for a key from the store: nothing, or the
\* entry json.load gives.
StoredEntry(k) ==
  IF store[k].exists /\ store[k].complete
    THEN [found |-> TRUE, value |-> JsonLoad(store[k]).value]
    ELSE [found |-> FALSE, value |-> Null]

\* A returned entry as JSON holds it (row keys are strings in JSON).
AsJson(entry) == IF entry.isNull THEN Null ELSE Val(JsonDump(entry.tables))

\* C13: when the call has returned, the store holds, for every requested key
\* that was not served from the store, an entry equal to the value returned
\* for that key, be it a table sequence or null.
C13_MissIsStoredBeforeReturn ==
  \A i \in Invs :
    inv[i].pc = "done" =>
      \A k \in InvKeys(i) :
        inv[i].source[k].kind # "hit" =>
          /\ StoredEntry(k).found
          /\ StoredEntry(k).value = AsJson(inv[i].all_results[k])

Quiet == \A i \in Invs : inv[i].pc \in {"idle", "done", "raised"}

\* C15: with invocations running at the same time on the same key, the race
\* costs duplicate fetches and nothing else: no invocation fails, each returns
\* a full mapping, an entry served from the store is a document some writer
\* dumped, and once all have returned every file of the store is a complete
\* document.
C15_RaceIsOnlyDuplicateWork ==
  /\ \A i \in Invs :
       /\ inv[i].pc # "raised"
       /\ inv[i].pc = "done" => DOMAIN inv[i].all_results = InvKeys(i)
       /\ \A k \in DOMAIN inv[i].source :
            inv[i].source[k].kind = "hit" =>
              \E page \in PageChoices :
                inv[i].all_results[k] = Val(JsonDump(ParseTables(page)))
  /\ Quiet => \A k \in AllKeys : store[k].exists => store[k].complete

\* C17: an entry of the store is immutable once written: no step of any
\* invocation, whether invocations follow one another or run at the same time,
\* changes or removes an entry that has been written, and a cache hit writes
\* nothing.
C17_WrittenEntryNeverChanges ==
  [][\A k \in AllKeys : store[k].complete => store'[k] = store[k]]_vars

\* C19: every browser session an invocation creates is quit before the loop
\* goes to the next combination and before the call returns or raises, on the
\* success path, on a wait that times out and on a page load that fails; an
\* invocation never has more than one session open.
C19_SessionsAlwaysQuit ==
  \A i \in Invs :
    /\ inv[i].sessions <= 1
    /\ inv[i].pc \in {"idle", "loop", "read", "chrome", "done", "raised"}
         => inv[i].sessions = 0

\* ================================================= crawl_etnews_articles
RECURSIVE IsSubseq(_, _)
IsSubseq(a, b) ==
  IF a = <<>> THEN TRUE
  ELSE IF b = <<>> THEN FALSE
  ELSE IF Head(a) = Head(b) THEN IsSubseq(Tail(a), Tail(b))
  ELSE IsSubseq(a, Tail(b))

\* The candidates of the requested pages, in page order then in-page order.
RECURSIVE CandidatesFrom(_, _)
CandidatesFrom(p, pages) ==
  IF p > pages THEN <<>>
  ELSE (IF site[p].ok THEN site[p].boxes ELSE <<>>) \o CandidatesFrom(p + 1, pages)

BoxFace(b) == <<b.title, b.link, DateSearch(b.date_text)>>

ArticleFace(a) == <<a.title, a.link, a.date>>

BoxFaces(seq) == [i \in DOMAIN seq |-> BoxFace(seq[i])]

ArticleFaces(seq) == [i \in DOMAIN seq |-> ArticleFace(seq[i])]

\* C4: the returned list is no longer than the candidates found on the
\* requested pages, and its elements are in page order, then in-page order,
\* whichever page and article requests failed.
C4_BoundedAndOrdered ==
  crawl.pc = "done" =>
    LET cands == CandidatesFrom(1, crawl.pages)
    IN /\ Len(crawl.articles) <= Len(cands)
       /\ IsSubseq(ArticleFaces(crawl.articles), BoxFaces(cands))

C4_Witness ==
  /\ crawl.pc = "done"
  /\ crawl.pages = 2
  /\ Len(crawl.articles) = 3
  /\ Len(CandidatesFrom(1, crawl.pages)) = 5
  /\ crawl.articles[1].link # crawl.articles[2].link
  /\ crawl.articles[2].content.kind = "failed"

\* A box with both its title tag and its date tag.
HasBoth(b) == b.hasTitle /\ b.hasDate

ArticleFields == {"title", "link", "date", "content", "keyword"}

\* C11: an article whose request failed is appended all the same, with the
\* failure placeholder as content: the returned list has one article for each
\* box with title and date of the pages that answered, in order, whichever
\* article requests failed, and every article has all five fields.
C11_FailedArticleStillAppended ==
  crawl.pc = "done" =>
    LET kept == SelectSeq(CandidatesFrom(1, crawl.pages), HasBoth)
    IN /\ Len(crawl.articles) = Len(kept)
       /\ \A i \in DOMAIN crawl.articles :
            LET a == crawl.articles[i]
            IN /\ DOMAIN a = ArticleFields
               /\ ArticleFace(a) = BoxFace(kept[i])
               /\ a.keyword = crawl.keyword
               /\ a.content \in ArticleAnswers
               /\ a.content.len > 0

C11_Witness ==
  /\ crawl.pc = "done"
  /\ Len(crawl.articles) = 2
  /\ crawl.articles[1].content = FailedContent
  /\ crawl.articles[1].title = "A"
  /\ crawl.articles[1].date = "2024-05-01"
  /\ crawl.articles[2].content = TextContent(LongLen)

\* The pages range(1, pages + 1) goes through.
PageRange(pages) == [p \in 1 .. pages |-> p]

Occurrences(seq, link) == Cardinality({i \in DOMAIN seq : seq[i].link = link})

\* C18 as claimed: no two articles of a returned list have the same link, also
\* when the same candidate is on more than one search page.
C18_LinksUnique ==
  crawl.pc = "done" =>
    \A i, j \in DOMAIN crawl.articles :
      i # j => crawl.articles[i].link # crawl.articles[j].link

\* C18 as amended: the returned list is not deduplicated; a link is in it as
\* many times as candidates with title and date carry it on the pages that
\* answered, once per appearance of a candidate that is on several pages.
C18_LinksKeptPerAppearance ==
  crawl.pc = "done" =>
    LET kept == SelectSeq(CandidatesFrom(1, crawl.pages), HasBoth)
    IN \A b \in {BoxA, BoxB, BoxNoDate, BoxNoTitle} :
         Occurrences(crawl.articles, b.link) = Occurrences(kept, b.link)

C18_Witness ==
  /\ crawl.pc = "done"
  /\ crawl.requested = <<1, 2>>
  /\ site[1].ok /\ site[2].ok
  /\ BoxA \in {site[1].boxes[i] : i \in DOMAIN site[1].boxes}
  /\ BoxA \in {site[2].boxes[i] : i \in DOMAIN site[2].boxes}
  /\ Occurrences(crawl.articles, BoxA.link) = 2

\* ============================================================ entry points
SummaryEntries == {"mc.etnews_finance_summary", "mo.etnews_finance_summary"}

\* The intent answer has been handled.
Heard == pipe.llmParse > 0 /\ pipe.pc \notin {"idle", "parse"}

\* C5: in mc.etnews_finance_summary, mo.etnews_finance_summary and
\* server.analyze the corpus holds at most limit article blocks (none for a
\* limit below 1) and no block's body is longer than 3000 characters, for
\* every limit accepted.
C5_CorpusWithinLimit ==
  (pipe.llmSynth > 0 /\ pipe.entry \in SummaryEntries \cup {"server.analyze"})
  => /\ Len(pipe.prompt.blocks) <= Max(pipe.limit, 0)
     /\ \A i \in DOMAIN pipe.prompt.blocks : pipe.prompt.blocks[i].body <= BodyCap

\* C6: when the intent completion is not JSON, every entry point ends with a
\* structured failure that carries the raw text, and none ends in an exception.
C6_NonJsonIsStructuredFailure ==
  (Heard /\ ~pipe.heard.fails /\ ~pipe.heard.isJson)
  => /\ pipe.pc = "done"
     /\ pipe.result.kind = "error_dict"
     /\ pipe.result.hasRaw
     /\ pipe.result.raw = Strip(pipe.heard.text)

\* A non-empty string of digits, among the stock ids at hand.
IsDigits(str) == str \in {"2330", "2317"}

\* The stock_id of the intent of the request.
IntentStockId ==
  IF pipe.llmParse > 0 THEN Get(pipe.parsed.obj, "stock_id", "")
  ELSE pipe.given.stock_id

\* C7: when the intent's stock_id is empty or is not a string of digits, the
\* request ends before any news fetch, filing fetch or synthesis call is
\* issued: in every run in which one is issued, the intent's stock_id is a
\* non-empty string of digits.
C7_BadStockIdFailsFast ==
  (pipe.crawls > 0 \/ pipe.fetches # <<>> \/ pipe.llmSynth > 0)
  => IsDigits(IntentStockId)

\* The crawl of this request has returned an empty list to the entry point.
NewsCameBackEmpty ==
  pipe.crawls > 0 /\ crawl.pc = "done" /\ crawl.articles = <<>> /\ pipe.pc # "news"

\* C8 as claimed: whenever the news fetch returns an empty list, the synthesis
\* call is never made and the request returns the advisory string.
C8_EmptyNewsNeverSynthesized ==
  NewsCameBackEmpty
  => /\ pipe.llmSynth = 0
     /\ pipe.pc \in {"done", "raised"} => pipe.result.kind = "no_news"

\* C8 as amended: in mc.etnews_finance_summary and mo.etnews_finance_summary,
\* when the news fetch returns an empty list the synthesis call is never made
\* and the entry point returns the advisory string.
C8_SummaryEmptyNewsAdvisory ==
  (NewsCameBackEmpty /\ pipe.entry \in SummaryEntries)
  => /\ pipe.llmSynth = 0
     /\ pipe.pc = "done"
     /\ pipe.result.kind = "no_news"

C8_Witness ==
  /\ pipe.entry = "mo.etnews_finance_summary"
  /\ NewsCameBackEmpty
  /\ site[1].ok
  /\ crawl.requested = <<1, 2>>
  /\ pipe.result.kind = "no_news"

\* C9: when server.analyze resolves the selector to "mops", the news fetcher is
\* never invoked, the filing fetcher is invoked once, with the intent's
\* stock_id, year and season, and its result is what the synthesis request
\* embeds and what is returned as mops_data.
C9_MopsOnly ==
  (pipe.entry = "server.analyze" /\ Heard /\ pipe.resourse = "mops")
  => LET o == pipe.heard.obj
         stock_id == Get(o, "stock_id", "")
         year == Get(o, "year", Now.year)
         season == Get(o, "season", ((Now.month - 1) \div 3) + 1)
     IN /\ pipe.crawls = 0
        /\ crawl.pc = "idle"
        /\ pipe.newsNone
        /\ pipe.fetches = << << <<stock_id>>, <<year>>, <<season>> >> >>
        /\ pipe.llmSynth > 0 =>
             /\ inv[1].pc = "done"
             /\ pipe.prompt.mops = Mops("map", inv[1].all_results)
             /\ pipe.mops = Mops("map", inv[1].all_results)
             /\ DOMAIN inv[1].all_results = {Key(stock_id, year, season)}

C9_Witness ==
  /\ pipe.entry = "server.analyze"
  /\ pipe.resourse = "mops"
  /\ pipe.pc = "done"
  /\ pipe.result.kind = "envelope"
  /\ pipe.prompt.mops.kind = "map"
  /\ Key("2330", 2024, 1) \in DOMAIN pipe.prompt.mops.map
  /\ pipe.prompt.mops.map[Key("2330", 2024, 1)] # Null
  /\ inv[1].gets = 1

\* C10: when the synthesis completion fails, no second one is issued and the
\* entry point returns an error string; the failure does not escape.
C10_SynthesisFailureIsReturned ==
  (pipe.llmSynth > 0 /\ pipe.pc \in {"done", "raised"})
  => /\ pipe.llmSynth = 1
     /\ pipe.pc = "done"
     /\ pipe.result.kind \in {"answer", "envelope", "synth_failed"}

\* The entry points whose synthesis request states an article count.
CountingEntries == SummaryEntries \cup {"mo.analyze_financial_data"}

\* C14: the article count stated in the synthesis request is the number of
\* article blocks the request holds, in mc._gpt_answer,
\* mo.etnews_finance_summary and mo.analyze_financial_data, for every article
\* list and limit.
C14_CountIsBlocksIncluded ==
  (pipe.llmSynth > 0 /\ pipe.entry \in CountingEntries)
  => pipe.prompt.count = Len(pipe.prompt.blocks)

\* C20: in mo.analyze_financial_data the intent parser is called only when
\* stock_id or company was not supplied, a parse result never takes the place
\* of an argument the caller supplied non-empty, and a supplied stock_id and
\* topic are the ones the filing fetch and the news keyword are made of.
C20_GivenArgumentsAreUsed ==
  pipe.entry = "mo.analyze_financial_data" =>
    /\ pipe.llmParse > 0 => (pipe.given.stock_id = "" \/ pipe.given.company = "")
    /\ pipe.given.stock_id # "" =>
         /\ pipe.stock_id = pipe.given.stock_id
         /\ \A j \in DOMAIN pipe.fetches :
              pipe.fetches[j][1] = <<pipe.given.stock_id>>
    /\ pipe.given.company # "" => pipe.company = pipe.given.company
    /\ pipe.given.topic # "" =>
         /\ pipe.topic = pipe.given.topic
         /\ pipe.crawls > 0 =>
              pipe.keyword = StripStr(pipe.company \o pipe.given.topic)

\* C21: in server.analyze, by the time the synthesis call is made, the news
\* fetcher has been invoked exactly if the lower-cased selector is "news" or
\* "both" and the filing fetcher exactly if it is "mops" or "both"; an absent
\* selector counts as "both"; whatever the selector, at least one of the two
\* has been invoked, and there is one synthesis call.
C21_SelectorDecidesSources ==
  (pipe.entry = "server.analyze" /\ pipe.llmSynth > 0)
  => /\ pipe.llmSynth = 1
     /\ pipe.crawls > 0 <=> pipe.resourse \in {"news", "both"}
     /\ pipe.fetches # <<>> <=> pipe.resourse \in {"mops", "both"}
     /\ pipe.resourse = Lower(Get(pipe.heard.obj, "resourse", "both"))
     /\ "resourse" \notin DOMAIN pipe.heard.obj => pipe.resourse = "both"
     /\ pipe.crawls > 0 \/ pipe.fetches # <<>>

====
